---- MODULE Spec2Model ----
(***************************************************************************)
(* Park walkthrough: collision registry, ground-height resolver, movement  *)
(* integrator and objective tracker.                                       *)
(*                                                                         *)
(* Lengths are fixed-point integers in hundredths of a world unit          *)
(* (1.5 units = 150), so that every threshold of the source is exact.      *)
(* Planar distances are compared through their squares: for non-negative   *)
(* a and b, sqrt(a) < b is a < b*b.                                        *)
(***************************************************************************)
EXTENDS Integers, Sequences, FiniteSets, TLC

VARIABLES
    collidableObjects,  \* collision.js:5 / main.js:31  the registry, in insertion order
    currentGroundHeight,\* collision.js:6 / main.js:58
    query,              \* the query just answered and what it returned; forgotten
                        \* when the registry changes
    gameState,          \* state.js:5 / main.js:36
    winScreens,         \* wins reported: checkWinCondition returning true (state.js),
                        \* showGameWinScreen calls (main.js)

    camera,             \* main.js:5    camera.position
    velocity,           \* main.js:9
    canJump,            \* main.js:8
    moveForward, moveBackward, moveLeft, moveRight,  \* main.js:7
    isRunning,          \* main.js:8
    isLocked,           \* main.js:90   controls.isLocked
    collectibles,       \* main.js:35   the collectibles with userData.collected
    ponds,              \* main.js:21
    deltaTime,          \* main.js:6    the frame time, in milliseconds
    timeWritten,        \* history: the last frame assigned gameState.timeElapsed
                        \* (main.js:2593), which the running clock changes
    spaceDown,          \* the keyboard: the Space key is down
    heldJumps,          \* history: jumps started by keydown events since the Space
                        \* key went down, counted up to MaxHeldJumps

    player,             \* Player.js:68-90  body.position, body.velocity, jumpCount,
                        \*                  canJump, isSwimming
    keys,               \* InputManager.js:3  input.keys
    regularJumps,       \* history: regular jumps honoured since the last frame in
                        \* which isGrounded() was true
    lastRequest         \* history: what the last frame did with a jump request

collVars == <<collidableObjects, currentGroundHeight, query>>
gameVars == <<gameState, winScreens>>
keyVars == <<moveForward, moveBackward, moveLeft, moveRight, isRunning>>
holdVars == <<spaceDown, heldJumps>>
mainVars == <<camera, velocity, canJump, keyVars, isLocked, collectibles, ponds,
              holdVars, deltaTime, timeWritten>>

playerVars == <<player, keys, regularJumps, lastRequest>>

vars == <<collVars, gameVars, mainVars, playerVars>>

(***************************************************************************)
(* Program constants (hundredths of a unit)                                *)
(***************************************************************************)
PLAYER_RADIUS == 100
PLAYER_HEIGHT == 200
BOUNDARY == 24000
JUMP_OVER_MARGIN == 150
LANDING_BELOW == 50
LANDING_ABOVE == 300
GROUND_TOLERANCE == 10
FRAME_TIME == 100        \* the frame time the frames of the scenes take, ms
GRAVITY_STEP == 49       \* 9.8 * 5.0 * deltaTime, tenths of a unit per second
JUMP_VELOCITY == 350
WALK_STEP == 50          \* WALK_SPEED * deltaTime
RUN_STEP == 100          \* RUN_SPEED * deltaTime
SHALLOW_DEPTH == 100
DEEP_DEPTH == 300
COLLECT_HORIZONTAL == 200
COLLECT_VERTICAL == 250
POND_DISCOVERY == 2000

(***************************************************************************)
(* Bounds                                                                  *)
(***************************************************************************)
MaxObstacles == 3
ArenaX == 50         \* the frames followed keep |x| <= ArenaX,
WalkZ == 600         \*   |z| <= WalkZ when walking,
JumpZ == 300         \*   |z| <= JumpZ when jumping
ArenaY == 1500       \*   and y <= ArenaY
MaxHeldJumps == 2    \* jumps counted while the Space key stays down
StrafeX == 24200     \* the frames followed keep |x| <= StrafeX when strafing
BuildingX == 1200    \* and |x| <= BuildingX in the building scene
MaxGlide == 2000     \* the friction steps followed keep |v| <= MaxGlide
WadeZ == 900         \* |z| <= WadeZ in the wading scene
GazeboX == 150       \* and |x| <= GazeboX in the gazebo scene
MaxGemCalls == 3     \* collectGem calls made by a caller of state.js
MaxTotalGems == 2    \* largest totalGems a caller of state.js sets
MaxPondIndex == 3    \* largest pond index a caller of state.js passes
MaxScore == 600      \* addScore is not called once the score would pass this

(***************************************************************************)
(* Obstacles.  obj.height is optional in the source: hasHeight is          *)
(* "obj.height !== undefined", and the truthiness test "!obj.height" is    *)
(* ~hasHeight \/ height = 0.                                               *)
(***************************************************************************)
Obstacle(x, z, radius, type) ==
    [x |-> x, z |-> z, radius |-> radius, type |-> type,
     hasHeight |-> FALSE, height |-> 0]

Platform(x, z, radius, type, height) ==
    [x |-> x, z |-> z, radius |-> radius, type |-> type,
     hasHeight |-> TRUE, height |-> height]

\* Objects a caller may register: a tree trunk, two overlapping terraces of
\* different heights, a slab registered with height 0 and a marker
\* registered with radius 0.
ObstaclePool ==
    { Obstacle(0, 0, 100, "tree"),
      Platform(100, 0, 500, "terrace", 300),
      Platform(0, 0, 300, "terrace", 500),
      Platform(0, 0, 200, "slab", 0),
      Obstacle(350, 0, 0, "marker") }

\* Query points: on every footprint, on the lower terrace only, and beyond
\* the world boundary on either axis.  Query heights sit on both sides of
\* every threshold of the pool (h - 0.5, h + 1.5, h + 3).
QueryXZ == { <<0, 0>>, <<350, 0>>, <<24100, 0>>, <<0, -24100>> }
QueryY == {0, 151, 250, 450, 451, 600, 601, 801}

Dist2(ax, az, bx, bz) == (ax - bx) * (ax - bx) + (az - bz) * (az - bz)

Abs(n) == IF n < 0 THEN 0 - n ELSE n

Max(a, b) == IF a > b THEN a ELSE b

(***************************************************************************)
(* checkCollision: the for-loop over the registry with its early return    *)
(* and its continue, then the boundary test.                               *)
(***************************************************************************)
\* Variant: "jumping over" one platform ends the search (break for continue)
RECURSIVE CollisionLoopBreak(_, _, _, _, _)
CollisionLoopBreak(objs, i, newX, newZ, playerY) ==
    IF i > Len(objs)
    THEN Abs(newX) > BOUNDARY \/ Abs(newZ) > BOUNDARY
    ELSE LET obj == objs[i]
             reach == PLAYER_RADIUS + obj.radius
         IN IF Dist2(newX, newZ, obj.x, obj.z) < reach * reach
            THEN IF obj.hasHeight /\ playerY > obj.height + JUMP_OVER_MARGIN
                 THEN FALSE
                 ELSE TRUE
            ELSE CollisionLoopBreak(objs, i + 1, newX, newZ, playerY)

\* Variant: the footprint blocks at every height (no height awareness)
RECURSIVE CollisionLoopFlat(_, _, _, _, _)
CollisionLoopFlat(objs, i, newX, newZ, playerY) ==
    IF i > Len(objs)
    THEN Abs(newX) > BOUNDARY \/ Abs(newZ) > BOUNDARY
    ELSE LET obj == objs[i]
             reach == PLAYER_RADIUS + obj.radius
         IN IF Dist2(newX, newZ, obj.x, obj.z) < reach * reach
            THEN TRUE
            ELSE CollisionLoopFlat(objs, i + 1, newX, newZ, playerY)

RECURSIVE CollisionLoop(_, _, _, _, _)
CollisionLoop(objs, i, newX, newZ, playerY) ==
    IF i > Len(objs)
    THEN Abs(newX) > BOUNDARY \/ Abs(newZ) > BOUNDARY
    ELSE LET obj == objs[i]
             reach == PLAYER_RADIUS + obj.radius
         IN IF Dist2(newX, newZ, obj.x, obj.z) < reach * reach
            THEN IF obj.hasHeight /\ playerY > obj.height + JUMP_OVER_MARGIN
                 THEN CollisionLoop(objs, i + 1, newX, newZ, playerY)
                 ELSE TRUE
            ELSE CollisionLoop(objs, i + 1, newX, newZ, playerY)

checkCollision(newX, newZ, playerY) ==
    CollisionLoop(collidableObjects, 1, newX, newZ, playerY)

(***************************************************************************)
(* getGroundHeight: running maximum over the platforms under the player    *)
(* whose landing window holds currentY.                                    *)
(***************************************************************************)
\* Variant: the landing window ends at the height checkCollision lets pass
RECURSIVE GroundLoopNarrow(_, _, _, _, _, _)
GroundLoopNarrow(objs, i, maxGroundHeight, x, z, currentY) ==
    IF i > Len(objs)
    THEN maxGroundHeight
    ELSE LET obj == objs[i]
         IN IF ~obj.hasHeight \/ obj.height = 0
            THEN GroundLoopNarrow(objs, i + 1, maxGroundHeight, x, z, currentY)
            ELSE IF /\ Dist2(x, z, obj.x, obj.z) < obj.radius * obj.radius
                    /\ currentY >= obj.height - LANDING_BELOW
                    /\ currentY <= obj.height + JUMP_OVER_MARGIN
                 THEN GroundLoopNarrow(objs, i + 1, Max(maxGroundHeight, obj.height),
                                       x, z, currentY)
                 ELSE GroundLoopNarrow(objs, i + 1, maxGroundHeight, x, z, currentY)

\* Variant: the last platform found wins (assignment for Math.max)
RECURSIVE GroundLoopLast(_, _, _, _, _, _)
GroundLoopLast(objs, i, maxGroundHeight, x, z, currentY) ==
    IF i > Len(objs)
    THEN maxGroundHeight
    ELSE LET obj == objs[i]
         IN IF ~obj.hasHeight \/ obj.height = 0
            THEN GroundLoopLast(objs, i + 1, maxGroundHeight, x, z, currentY)
            ELSE IF /\ Dist2(x, z, obj.x, obj.z) < obj.radius * obj.radius
                    /\ currentY >= obj.height - LANDING_BELOW
                    /\ currentY <= obj.height + LANDING_ABOVE
                 THEN GroundLoopLast(objs, i + 1, obj.height, x, z, currentY)
                 ELSE GroundLoopLast(objs, i + 1, maxGroundHeight, x, z, currentY)

RECURSIVE GroundLoop(_, _, _, _, _, _)
GroundLoop(objs, i, maxGroundHeight, x, z, currentY) ==
    IF i > Len(objs)
    THEN maxGroundHeight
    ELSE LET obj == objs[i]
         IN IF ~obj.hasHeight \/ obj.height = 0
            THEN GroundLoop(objs, i + 1, maxGroundHeight, x, z, currentY)
            ELSE IF /\ Dist2(x, z, obj.x, obj.z) < obj.radius * obj.radius
                    /\ currentY >= obj.height - LANDING_BELOW
                    /\ currentY <= obj.height + LANDING_ABOVE
                 THEN GroundLoop(objs, i + 1, Max(maxGroundHeight, obj.height),
                                 x, z, currentY)
                 ELSE GroundLoop(objs, i + 1, maxGroundHeight, x, z, currentY)

getGroundHeight(x, z, currentY) ==
    GroundLoop(collidableObjects, 1, 0, x, z, currentY)

NoQuery == [op |-> "none", x |-> 0, z |-> 0, y |-> 0, blocked |-> FALSE, ground |-> 0]

(***************************************************************************)
(* collision.js as a module: the registry operations and the two queries   *)
(***************************************************************************)
Vec3(x, y, z) == [x |-> x, y |-> y, z |-> z]

\* main.js is not loaded: its variables keep their declared values
MainIdle ==
    /\ camera = Vec3(0, 0, 0)
    /\ velocity = Vec3(0, 0, 0)
    /\ canJump = FALSE
    /\ moveForward = FALSE /\ moveBackward = FALSE
    /\ moveLeft = FALSE /\ moveRight = FALSE
    /\ isRunning = FALSE
    /\ isLocked = FALSE
    /\ collectibles = <<>>
    /\ ponds = <<>>
    /\ deltaTime = 0
    /\ timeWritten = FALSE
    /\ spaceDown = FALSE
    /\ heldJumps = 0

\* Game.js is not constructed: no player, no input manager
PlayerIdle ==
    /\ player = [cell |-> 0, move |-> 0, y |-> 0, vy |-> 0, jumpCount |-> 0,
                 canJump |-> FALSE, isSwimming |-> FALSE]
    /\ keys = [forward |-> FALSE, backward |-> FALSE, jump |-> FALSE]
    /\ regularJumps = 0
    /\ lastRequest = "none"

InitialGameState ==
    [score |-> 0, gemsCollected |-> 0, totalGems |-> 0,
     gameStarted |-> FALSE, gameWon |-> FALSE,
     objectives |-> <<FALSE, FALSE, FALSE>>,   \* the completed flags
     pondsVisited |-> {}, treasureFound |-> FALSE]

InitColl ==
    /\ collidableObjects = <<>>
    /\ currentGroundHeight = 0
    /\ query = NoQuery
    /\ gameState = InitialGameState
    /\ winScreens = 0
    /\ MainIdle
    /\ PlayerIdle

registerCollidable(object) ==
    /\ Len(collidableObjects) < MaxObstacles
    /\ collidableObjects' = Append(collidableObjects, object)
    /\ query' = NoQuery
    /\ UNCHANGED <<currentGroundHeight, gameVars, mainVars, playerVars>>

clearCollidables ==
    /\ collidableObjects' = <<>>
    /\ query' = NoQuery
    /\ UNCHANGED <<currentGroundHeight, gameVars, mainVars, playerVars>>

CheckCollisionCall(newX, newZ, playerY) ==
    /\ query' = [op |-> "checkCollision", x |-> newX, z |-> newZ, y |-> playerY,
                 blocked |-> checkCollision(newX, newZ, playerY), ground |-> 0]
    /\ UNCHANGED <<collidableObjects, currentGroundHeight, gameVars, mainVars, playerVars>>

updateGroundHeight(x, z, y) ==
    /\ currentGroundHeight' = getGroundHeight(x, z, y)
    /\ query' = [op |-> "updateGroundHeight", x |-> x, z |-> z, y |-> y,
                 blocked |-> FALSE, ground |-> getGroundHeight(x, z, y)]
    /\ UNCHANGED <<collidableObjects, gameVars, mainVars, playerVars>>

NextColl ==
    \/ \E object \in ObstaclePool : registerCollidable(object)
    \/ clearCollidables
    \/ \E p \in QueryXZ, playerY \in QueryY : CheckCollisionCall(p[1], p[2], playerY)
    \/ \E p \in QueryXZ, y \in QueryY : updateGroundHeight(p[1], p[2], y)

SpecColl == InitColl /\ [][NextColl]_vars

(***************************************************************************)
(* state.js as a module: the exported operations, called in any order      *)
(***************************************************************************)
\* Variant: some() for every()
AnyCompleted(gs) == \E i \in 1..3 : gs.objectives[i]

AllCompleted(gs) == \A i \in 1..3 : gs.objectives[i]

InitState ==
    /\ collidableObjects = <<>>
    /\ currentGroundHeight = 0
    /\ query = NoQuery
    /\ gameState = InitialGameState
    /\ winScreens = 0
    /\ MainIdle
    /\ PlayerIdle

startGame ==
    /\ gameState' = [gameState EXCEPT !.gameStarted = TRUE]
    /\ UNCHANGED <<collVars, winScreens, mainVars, playerVars>>

addScore(points) ==
    /\ gameState.score + points <= MaxScore
    /\ gameState' = [gameState EXCEPT !.score = @ + points]
    /\ UNCHANGED <<collVars, winScreens, mainVars, playerVars>>

collectGem ==
    /\ gameState.gemsCollected < MaxGemCalls
    /\ LET n == gameState.gemsCollected + 1
       IN gameState' = [gameState EXCEPT
              !.gemsCollected = n,
              !.objectives[1] = IF n >= gameState.totalGems THEN TRUE ELSE @]
    /\ UNCHANGED <<collVars, winScreens, mainVars, playerVars>>

collectTreasure ==
    /\ gameState' = [gameState EXCEPT !.treasureFound = TRUE,
                                       !.objectives[2] = TRUE]
    /\ UNCHANGED <<collVars, winScreens, mainVars, playerVars>>

visitPond(pondIndex) ==
    /\ LET visited == gameState.pondsVisited \cup {pondIndex}
       IN gameState' = [gameState EXCEPT
              !.pondsVisited = visited,
              !.objectives[3] = IF Cardinality(visited) >= 3 THEN TRUE ELSE @]
    /\ UNCHANGED <<collVars, winScreens, mainVars, playerVars>>

\* Variant: the win is reported whenever the objectives are all completed
checkWinConditionRepeat ==
    /\ IF AllCompleted(gameState)
       THEN /\ gameState' = [gameState EXCEPT !.gameWon = TRUE]
            /\ winScreens' = winScreens + 1
       ELSE UNCHANGED <<gameState, winScreens>>
    /\ UNCHANGED <<collVars, mainVars, playerVars>>

\* state.js checkWinCondition; the returned value is counted in winScreens
checkWinConditionState ==
    /\ IF AllCompleted(gameState) /\ ~gameState.gameWon
       THEN /\ gameState' = [gameState EXCEPT !.gameWon = TRUE]
            /\ winScreens' = winScreens + 1
       ELSE UNCHANGED <<gameState, winScreens>>
    /\ UNCHANGED <<collVars, mainVars, playerVars>>

setTotalGems(count) ==
    /\ gameState' = [gameState EXCEPT !.totalGems = count]
    /\ UNCHANGED <<collVars, winScreens, mainVars, playerVars>>

incrementTotalGems ==
    /\ gameState.totalGems < MaxTotalGems
    /\ gameState' = [gameState EXCEPT !.totalGems = @ + 1]
    /\ UNCHANGED <<collVars, winScreens, mainVars, playerVars>>

NextState ==
    \/ startGame
    \/ \E points \in {100, 500} : addScore(points)
    \/ collectGem
    \/ collectTreasure
    \/ \E pondIndex \in 0..MaxPondIndex : visitPond(pondIndex)
    \/ checkWinConditionState
    \/ \E count \in 0..MaxTotalGems : setTotalGems(count)
    \/ incrementTotalGems

SpecState == InitState /\ [][NextState]_vars

(***************************************************************************)
(* main.js: the frame loop, the keyboard and the reset button.             *)
(*                                                                         *)
(* A frame lasts 1/10 s.  Velocities are in tenths of a unit per second,   *)
(* so that velocity * deltaTime is the velocity's value in hundredths of a *)
(* unit.  The camera keeps its initial heading (looking down -Z): the      *)
(* forward vector is (0,0,-1) and the camera's right vector is (1,0,0).    *)
(*                                                                         *)
(* The scenes are reduced parks: the kinds, radii, heights and values of   *)
(* their objects are those of createElevatedTerraces, createTree,          *)
(* createPonds, createCollectibles and createTreasure, placed on a strip   *)
(* around the spawn point.                                                 *)
(***************************************************************************)
Gem(x, z, elevationHeight) ==
    [x |-> x, z |-> z, baseHeight |-> 150 + elevationHeight, type |-> "gem",
     value |-> 100, isTreasure |-> FALSE, collected |-> FALSE]

Coin(x, z, elevationHeight) ==
    [x |-> x, z |-> z, baseHeight |-> 150 + elevationHeight, type |-> "coin",
     value |-> 10, isTreasure |-> FALSE, collected |-> FALSE]

\* the chest has no userData.baseHeight: animateCollectibles uses 1.5
Treasure(x, z) ==
    [x |-> x, z |-> z, baseHeight |-> 150, type |-> "none",
     value |-> 0, isTreasure |-> TRUE, collected |-> FALSE]

\* createHiddenTreasureInBuilding: floorY is treasureFloor * floorHeight + 1
BuildingTreasure(x, z, floorY) ==
    [x |-> x, z |-> z, baseHeight |-> floorY + 100, type |-> "building_treasure",
     value |-> 200, isTreasure |-> FALSE, collected |-> FALSE]

Pond(x, z, size, depth) == [x |-> x, z |-> z, size |-> size, depth |-> depth]

\* The walking scene: a tree beside the path, no water within the strip.
\* Down -Z lie a gem, the discovery range of pond 0 and the treasure; down
\* +Z the discovery range of pond 1, a gem, that of pond 2 and a coin.
WalkObstacles == << Obstacle(250, -200, 100, "tree") >>

WalkPonds ==
    << Pond(0, -2250, 1500, 350),
       Pond(0, 2050, 1200, 200),
       Pond(0, 2350, 1200, 200) >>

WalkCollectibles ==
    << Gem(0, -250, 0),
       Treasure(0, -550),
       Gem(0, 350, 0),
       Coin(0, 700, 0) >>

\* The jumping scene: a terrace ahead of the spawn point with a gem on it,
\* a pond and the treasure out of reach.
JumpObstacles == << Platform(0, -450, 300, "terrace", 250) >>

JumpPonds == << Pond(0, -4000, 1200, 200) >>

JumpCollectibles ==
    << Gem(0, -450, 300),
       Treasure(0, -4000) >>

\* toward zero, as a fixed-point product is cut
TDiv(a, b) == IF a >= 0 THEN a \div b ELSE 0 - ((0 - a) \div b)

RECURSIVE SqrtSearch(_, _, _)
SqrtSearch(n, lo, hi) ==
    IF lo >= hi THEN lo
    ELSE LET mid == (lo + hi + 1) \div 2
         IN IF mid * mid <= n THEN SqrtSearch(n, mid, hi)
                              ELSE SqrtSearch(n, lo, mid - 1)

\* Math.sqrt, to the hundredth below
Sqrt(n) == SqrtSearch(n, 0, 40000)

Num(b) == IF b THEN 1 ELSE 0

\* getWaterDepth: the first pond whose disc holds (x, z)
RECURSIVE WaterLoop(_, _, _)
WaterLoop(i, x, z) ==
    IF i > Len(ponds)
    THEN [inWater |-> FALSE, depth |-> 0]
    ELSE LET pond == ponds[i]
             d2 == Dist2(x, z, pond.x, pond.z)
         IN IF d2 < pond.size * pond.size
            THEN [inWater |-> TRUE,
                  depth |-> (pond.depth * (pond.size - Sqrt(d2))) \div pond.size]
            ELSE WaterLoop(i + 1, x, z)

getWaterDepth(x, z) == WaterLoop(1, x, z)

\* Variant: the deep tier does not look at isRunning
WaterTierNoRun(depth, running) ==
    IF depth < SHALLOW_DEPTH THEN [waterResistance |-> 9, sink |-> 2]
    ELSE IF depth < DEEP_DEPTH THEN [waterResistance |-> 6, sink |-> 5]
    ELSE [waterResistance |-> 2, sink |-> 12]

\* the depth tiers of updateMovement: resistance in tenths, sinkRate *
\* deltaTime in hundredths
WaterTier(depth, running) ==
    IF depth < SHALLOW_DEPTH THEN [waterResistance |-> 9, sink |-> 2]
    ELSE IF depth < DEEP_DEPTH THEN [waterResistance |-> 6, sink |-> 5]
    ELSE IF running THEN [waterResistance |-> 4, sink |-> 8]
    ELSE [waterResistance |-> 2, sink |-> 12]

\* direction.normalize(): components in thousandths
Normalized(c, other) == IF c # 0 /\ other # 0 THEN c * 707 ELSE c * 1000

\* one friction step of updateMovement on a horizontal velocity component,
\* dt in milliseconds: 10.0 * deltaTime on the ground, 2.0 * deltaTime in
\* the air
Friction(v, isGrounded, dt) ==
    IF isGrounded THEN v - TDiv(v * 10 * dt, 1000)
                  ELSE v - TDiv(v * 2 * dt, 1000)

\* the sinking effect of updateMovement: camera.position.y as the water
\* leaves it, not below the pond's bottom plus PLAYER_HEIGHT
WaterSink(y, wet, depth, sink) ==
    LET sunk == y - sink
        waterBottom == 0 - depth
    IN IF wet
       THEN IF sunk < waterBottom + PLAYER_HEIGHT
            THEN waterBottom + PLAYER_HEIGHT ELSE sunk
       ELSE y

\* Variant: the collision test is made after the vertical movement
QueryHeightAfterFall(y, vy) == y + vy

\* the height passed to checkCollision: camera.position.y where the test
\* stands, after the sinking effect and before the vertical movement
QueryHeight(y, vy) == y

\* Variant: a blocked move keeps the horizontal velocity
HorizontalMoveKeepsSpeed(blocked, pos, vx, vz) ==
    IF blocked
    THEN [x |-> pos.x, z |-> pos.z, vx |-> vx, vz |-> vz]
    ELSE [x |-> pos.x - vx, z |-> pos.z + vz, vx |-> vx, vz |-> vz]

\* the end of updateMovement: the horizontal move, committed unless the
\* target is blocked
HorizontalMove(blocked, pos, vx, vz) ==
    IF blocked
    THEN [x |-> pos.x, z |-> pos.z, vx |-> 0, vz |-> 0]
    ELSE [x |-> pos.x - vx, z |-> pos.z + vz, vx |-> vx, vz |-> vz]

\* Variant: the ground collision stops the fall without snapping to the level
GroundClampNoSnap(y, vy, groundLevel, jump) ==
    IF y + vy < groundLevel
    THEN [y |-> y, vy |-> 0, canJump |-> TRUE, landed |-> TRUE]
    ELSE [y |-> y + vy, vy |-> vy, canJump |-> jump, landed |-> FALSE]

\* the vertical movement and the ground collision that follow it
GroundClamp(y, vy, groundLevel, jump) ==
    IF y + vy < groundLevel
    THEN [y |-> groundLevel, vy |-> 0, canJump |-> TRUE, landed |-> TRUE]
    ELSE [y |-> y + vy, vy |-> vy, canJump |-> jump, landed |-> FALSE]

\* updateMovement: the values of camera.position, velocity, canJump and
\* currentGroundHeight when it returns
updateMovement ==
    LET vy1 == velocity.y - GRAVITY_STEP
        ground == getGroundHeight(camera.x, camera.z, camera.y)
        groundLevel == ground + PLAYER_HEIGHT
        isGrounded == camera.y <= groundLevel + GROUND_TOLERANCE
        vx1 == Friction(velocity.x, isGrounded, FRAME_TIME)
        vz1 == Friction(velocity.z, isGrounded, FRAME_TIME)
        dz == Num(moveForward) - Num(moveBackward)
        dx == Num(moveRight) - Num(moveLeft)
        dirz == Normalized(dz, dx)
        dirx == Normalized(dx, dz)
        waterData == getWaterDepth(camera.x, camera.z)
        wet == waterData.inWater /\ isGrounded
        tier == WaterTier(waterData.depth, isRunning)
        waterResistance == IF wet THEN tier.waterResistance ELSE 10
        y1 == WaterSink(camera.y, wet, waterData.depth, tier.sink)
        speed == IF isRunning THEN RUN_STEP ELSE WALK_STEP
        airControlFactor == IF isGrounded THEN 10 ELSE 7
        finalSpeedFactor == airControlFactor * waterResistance
        vz2 == IF moveForward \/ moveBackward
               THEN vz1 - TDiv(dirz * speed * finalSpeedFactor, 100000) ELSE vz1
        vx2 == IF moveLeft \/ moveRight
               THEN vx1 - TDiv(dirx * speed * finalSpeedFactor, 100000) ELSE vx1
        \* strafeVector = up x forward = (-1,0,0); moveVector = (0,0,-1)
        potentialX == camera.x + vx2
        potentialZ == camera.z + vz2
        queryY == QueryHeight(y1, vy1)
        blocked == checkCollision(potentialX, potentialZ, queryY)
        \* controls.moveRight(-velocity.x * deltaTime) moves along the
        \* camera's right vector (1,0,0), controls.moveForward(-velocity.z *
        \* deltaTime) along (0,0,-1)
        h == HorizontalMove(blocked, camera, vx2, vz2)
        v == GroundClamp(y1, vy1, groundLevel, canJump)
    IN [camera |-> Vec3(h.x, v.y, h.z),
        velocity |-> Vec3(h.vx, v.vy, h.vz),
        canJump |-> v.canJump,
        currentGroundHeight |-> ground,
        blocked |-> blocked, y1 |-> y1, groundLevel |-> groundLevel,
        isGrounded |-> isGrounded, landed |-> v.landed,
        wet |-> wet, tier |-> tier, queryY |-> queryY, potentialX |-> potentialX,
        potentialZ |-> potentialZ]

\* main.js checkWinCondition on a game state gs with n win screens shown
checkWinCondition(g) ==
    IF ~g.gs.gameWon /\ AllCompleted(g.gs)
    THEN [gs |-> [g.gs EXCEPT !.gameWon = TRUE], n |-> g.n + 1]
    ELSE g

\* collectItem minus the collected flag; the rise-and-shrink animation it
\* starts changes the position and scale of a collected item, which nothing
\* reads
collectItem(g, c) ==
    LET gs == g.gs
        gs1 == IF c.isTreasure
               THEN [gs EXCEPT !.treasureFound = TRUE, !.score = @ + 500,
                               !.objectives[2] = TRUE]
               ELSE IF c.type = "gem"
               THEN [gs EXCEPT !.gemsCollected = @ + 1, !.score = @ + c.value,
                               !.objectives[1] =
                                   IF gs.gemsCollected + 1 >= gs.totalGems
                                   THEN TRUE ELSE @]
               ELSE [gs EXCEPT !.score = @ + c.value]
    IN checkWinCondition([gs |-> gs1, n |-> g.n])

HorizontallyClose(c, pos) == Dist2(pos.x, pos.z, c.x, c.z) < COLLECT_HORIZONTAL * COLLECT_HORIZONTAL

InReach(c, pos, bob) ==
    /\ HorizontallyClose(c, pos)
    /\ Abs(pos.y - (c.baseHeight + bob)) < COLLECT_VERTICAL

\* Variant: the collected flag is not looked at
RECURSIVE CollectLoopAgain(_, _, _, _, _)
CollectLoopAgain(i, items, g, pos, bob) ==
    IF i > Len(items) THEN [items |-> items, g |-> g]
    ELSE IF \/ ~HorizontallyClose(items[i], pos)
            \/ ~InReach(items[i], pos, IF items[i].collected THEN 0 ELSE bob[i])
         THEN CollectLoopAgain(i + 1, items, g, pos, bob)
         ELSE CollectLoopAgain(i + 1, [items EXCEPT ![i].collected = TRUE],
                               collectItem(g, items[i]), pos, bob)

\* checkCollectibles: forEach over the collectibles, in order
RECURSIVE CollectLoop(_, _, _, _, _)
CollectLoop(i, items, g, pos, bob) ==
    IF i > Len(items) THEN [items |-> items, g |-> g]
    ELSE IF \/ items[i].collected
            \/ ~HorizontallyClose(items[i], pos)
            \/ ~InReach(items[i], pos, bob[i])
         THEN CollectLoop(i + 1, items, g, pos, bob)
         ELSE CollectLoop(i + 1, [items EXCEPT ![i].collected = TRUE],
                          collectItem(g, items[i]), pos, bob)

\* Variant: the pond objective is completed by the second pond
RECURSIVE PondLoopTwo(_, _, _)
PondLoopTwo(i, gs, pos) ==
    IF i > Len(ponds) THEN gs
    ELSE LET pond == ponds[i]
             index == i - 1
         IN IF /\ Dist2(pos.x, pos.z, pond.x, pond.z) < POND_DISCOVERY * POND_DISCOVERY
               /\ index \notin gs.pondsVisited
            THEN LET visited == gs.pondsVisited \cup {index}
                 IN PondLoopTwo(i + 1,
                                [gs EXCEPT !.pondsVisited = visited,
                                           !.objectives[3] =
                                               IF Cardinality(visited) >= 2
                                               THEN TRUE ELSE @],
                                pos)
            ELSE PondLoopTwo(i + 1, gs, pos)

\* Variant: the set of visited ponds holds the latest pond only
RECURSIVE PondLoopLatest(_, _, _)
PondLoopLatest(i, gs, pos) ==
    IF i > Len(ponds) THEN gs
    ELSE LET pond == ponds[i]
             index == i - 1
         IN IF /\ Dist2(pos.x, pos.z, pond.x, pond.z) < POND_DISCOVERY * POND_DISCOVERY
               /\ index \notin gs.pondsVisited
            THEN PondLoopLatest(i + 1, [gs EXCEPT !.pondsVisited = {index}], pos)
            ELSE PondLoopLatest(i + 1, gs, pos)

\* checkPondVisits: forEach over the ponds, index from 0
RECURSIVE PondLoop(_, _, _)
PondLoop(i, gs, pos) ==
    IF i > Len(ponds) THEN gs
    ELSE LET pond == ponds[i]
             index == i - 1
         IN IF /\ Dist2(pos.x, pos.z, pond.x, pond.z) < POND_DISCOVERY * POND_DISCOVERY
               /\ index \notin gs.pondsVisited
            THEN LET visited == gs.pondsVisited \cup {index}
                 IN PondLoop(i + 1,
                             [gs EXCEPT !.pondsVisited = visited,
                                        !.objectives[3] =
                                            IF Cardinality(visited) >= 3
                                            THEN TRUE ELSE @],
                             pos)
            ELSE PondLoop(i + 1, gs, pos)

BobOffsets == {-20, 0, 20}

\* Variant: createCollectibles adds its gems to the totalGems the buildings
\* have counted
InitSceneCounting(obstacles, pondList, items) ==
    /\ collidableObjects = obstacles
    /\ currentGroundHeight = 0
    /\ query = NoQuery
    /\ gameState = [InitialGameState EXCEPT
                       !.gameStarted = TRUE,
                       !.totalGems = Cardinality({i \in 1..Len(items) :
                            items[i].type \in {"gem", "building_treasure"}})]
    /\ winScreens = 0
    /\ camera = Vec3(0, 500, 0)
    /\ velocity = Vec3(0, 0, 0)
    /\ canJump = FALSE
    /\ moveForward = FALSE /\ moveBackward = FALSE
    /\ moveLeft = FALSE /\ moveRight = FALSE
    /\ isRunning = FALSE
    /\ isLocked = FALSE
    /\ collectibles = items
    /\ ponds = pondList
    /\ deltaTime = 0
    /\ timeWritten = FALSE
    /\ spaceDown = FALSE
    /\ heldJumps = 0
    /\ PlayerIdle

\* init(): the world is built, the game is started, the pointer is free
InitScene(obstacles, pondList, items) ==
    /\ collidableObjects = obstacles
    /\ currentGroundHeight = 0
    /\ query = NoQuery
    /\ gameState = [InitialGameState EXCEPT
                       !.gameStarted = TRUE,
                       !.totalGems = Cardinality({i \in 1..Len(items) :
                                                    items[i].type = "gem"})]
    /\ winScreens = 0
    /\ camera = Vec3(0, 500, 0)
    /\ velocity = Vec3(0, 0, 0)
    /\ canJump = FALSE
    /\ moveForward = FALSE /\ moveBackward = FALSE
    /\ moveLeft = FALSE /\ moveRight = FALSE
    /\ isRunning = FALSE
    /\ isLocked = FALSE
    /\ collectibles = items
    /\ ponds = pondList
    /\ deltaTime = 0
    /\ timeWritten = FALSE
    /\ spaceDown = FALSE
    /\ heldJumps = 0
    /\ PlayerIdle

InArena(pos, maxZ) ==
    /\ Abs(pos.x) <= ArenaX
    /\ Abs(pos.z) <= maxZ
    /\ pos.y <= ArenaY

\* the position of the camera after this frame's updateMovement
FramePosition == IF isLocked THEN updateMovement.camera ELSE camera

\* the collectibles whose height this frame's checkCollectibles looks at
Nearby ==
    { i \in 1..Len(collectibles) :
        ~collectibles[i].collected /\ HorizontallyClose(collectibles[i], FramePosition) }

\* Variant: the game element checks go on after the win
animateAfterWin(bob) ==
    LET m == updateMovement
        pos == FramePosition
        playing == gameState.gameStarted
        c == CollectLoop(1, collectibles, [gs |-> gameState, n |-> winScreens],
                         pos, bob)
    IN /\ camera' = pos
       /\ velocity' = IF isLocked THEN m.velocity ELSE velocity
       /\ canJump' = IF isLocked THEN m.canJump ELSE canJump
       /\ currentGroundHeight' = IF isLocked THEN m.currentGroundHeight
                                             ELSE currentGroundHeight
       /\ collectibles' = IF playing THEN c.items ELSE collectibles
       /\ gameState' = IF playing THEN PondLoop(1, c.g.gs, pos) ELSE gameState
       /\ winScreens' = IF playing THEN c.g.n ELSE winScreens
       /\ deltaTime' = FRAME_TIME
       /\ timeWritten' = playing
       /\ UNCHANGED <<collidableObjects, query, keyVars, isLocked, ponds,
                      holdVars, playerVars>>

\* animate(): one frame.  bob[i] is the bob offset animateCollectibles gives
\* collectible i in this frame; it is read by checkCollectibles only, and
\* only for the collectibles nearby.
animate(bob) ==
    LET m == updateMovement
        pos == FramePosition
        playing == gameState.gameStarted /\ ~gameState.gameWon
        c == CollectLoop(1, collectibles, [gs |-> gameState, n |-> winScreens],
                         pos, bob)
    IN /\ camera' = pos
       /\ velocity' = IF isLocked THEN m.velocity ELSE velocity
       /\ canJump' = IF isLocked THEN m.canJump ELSE canJump
       /\ currentGroundHeight' = IF isLocked THEN m.currentGroundHeight
                                             ELSE currentGroundHeight
       /\ collectibles' = IF playing THEN c.items ELSE collectibles
       /\ gameState' = IF playing THEN PondLoop(1, c.g.gs, pos) ELSE gameState
       /\ winScreens' = IF playing THEN c.g.n ELSE winScreens
       /\ deltaTime' = FRAME_TIME
       /\ timeWritten' = playing
       /\ UNCHANGED <<collidableObjects, query, keyVars, isLocked, ponds,
                      holdVars, playerVars>>

onKeyDown(code) ==
    /\ moveForward' = IF code = "KeyW" THEN TRUE ELSE moveForward
    /\ moveBackward' = IF code = "KeyS" THEN TRUE ELSE moveBackward
    /\ moveLeft' = IF code = "KeyA" THEN TRUE ELSE moveLeft
    /\ moveRight' = IF code = "KeyD" THEN TRUE ELSE moveRight
    /\ isRunning' = IF code = "ShiftLeft" THEN TRUE ELSE isRunning
    /\ velocity' = IF code = "Space" /\ canJump
                   THEN [velocity EXCEPT !.y = JUMP_VELOCITY] ELSE velocity
    /\ canJump' = IF code = "Space" THEN FALSE ELSE canJump
    /\ spaceDown' = IF code = "Space" THEN TRUE ELSE spaceDown
    /\ heldJumps' =
          IF code = "Space"
          THEN LET before == IF spaceDown THEN heldJumps ELSE 0
               IN IF canJump /\ before < MaxHeldJumps THEN before + 1 ELSE before
          ELSE heldJumps
    /\ UNCHANGED <<collVars, gameVars, camera, isLocked, collectibles, ponds,
                   deltaTime, timeWritten, playerVars>>

\* Variant: releasing Space cuts a rising jump short
onKeyUpCutsJump(code) ==
    /\ moveForward' = IF code = "KeyW" THEN FALSE ELSE moveForward
    /\ moveBackward' = IF code = "KeyS" THEN FALSE ELSE moveBackward
    /\ moveLeft' = IF code = "KeyA" THEN FALSE ELSE moveLeft
    /\ moveRight' = IF code = "KeyD" THEN FALSE ELSE moveRight
    /\ isRunning' = IF code = "ShiftLeft" THEN FALSE ELSE isRunning
    /\ spaceDown' = IF code = "Space" THEN FALSE ELSE spaceDown
    /\ heldJumps' = IF code = "Space" THEN 0 ELSE heldJumps
    /\ velocity' = IF code = "Space" /\ velocity.y > 0
                   THEN [velocity EXCEPT !.y = 0] ELSE velocity
    /\ UNCHANGED <<collVars, gameVars, camera, canJump, isLocked,
                   collectibles, ponds, deltaTime, timeWritten, playerVars>>

onKeyUp(code) ==
    /\ moveForward' = IF code = "KeyW" THEN FALSE ELSE moveForward
    /\ moveBackward' = IF code = "KeyS" THEN FALSE ELSE moveBackward
    /\ moveLeft' = IF code = "KeyA" THEN FALSE ELSE moveLeft
    /\ moveRight' = IF code = "KeyD" THEN FALSE ELSE moveRight
    /\ isRunning' = IF code = "ShiftLeft" THEN FALSE ELSE isRunning
    /\ spaceDown' = IF code = "Space" THEN FALSE ELSE spaceDown
    /\ heldJumps' = IF code = "Space" THEN 0 ELSE heldJumps
    /\ UNCHANGED <<collVars, gameVars, camera, velocity, canJump, isLocked,
                   collectibles, ponds, deltaTime, timeWritten, playerVars>>

\* the reset-position button
resetPosition ==
    /\ camera' = Vec3(0, 500, 0)
    /\ velocity' = Vec3(0, 0, 0)
    /\ UNCHANGED <<collVars, gameVars, canJump, keyVars, isLocked, collectibles,
                   ponds, holdVars, deltaTime, timeWritten, playerVars>>

\* a click on the canvas: controls.lock()
lock ==
    /\ ~isLocked
    /\ isLocked' = TRUE
    /\ UNCHANGED <<collVars, gameVars, camera, velocity, canJump, keyVars,
                   collectibles, ponds, holdVars, deltaTime, timeWritten, playerVars>>

\* the frames followed: those that keep the player within maxZ of the spawn
\* point along Z
Frame(maxZ) ==
    /\ InArena(FramePosition, maxZ)
    /\ \E bob \in [Nearby -> BobOffsets] : animate(bob)

\* Walking: the player walks down and up the strip and uses the reset button
InitWalk == InitScene(WalkObstacles, WalkPonds, WalkCollectibles)

NextWalk ==
    \/ Frame(WalkZ)
    \/ \E code \in {"KeyW", "KeyS"} : onKeyDown(code)
    \/ \E code \in {"KeyW", "KeyS"} : onKeyUp(code)
    \/ resetPosition
    \/ lock

SpecWalk == InitWalk /\ [][NextWalk]_vars

\* Jumping: the player walks, jumps and uses the reset button
InitJump == InitScene(JumpObstacles, JumpPonds, JumpCollectibles)

NextJump ==
    \/ Frame(JumpZ)
    \/ \E code \in {"KeyW", "Space"} : onKeyDown(code)
    \/ \E code \in {"KeyW", "Space"} : onKeyUp(code)
    \/ resetPosition
    \/ lock

SpecJump == InitJump /\ [][NextJump]_vars

\* Strafing: the player side-steps to the right from the spawn point for as
\* long as it takes to cross the park
Roam(maxX) ==
    /\ Abs(FramePosition.x) <= maxX
    /\ Abs(FramePosition.z) <= WalkZ
    /\ FramePosition.y <= ArenaY
    /\ \E bob \in [Nearby -> BobOffsets] : animate(bob)

NextStrafe ==
    \/ Roam(StrafeX)
    \/ onKeyDown("KeyD")
    \/ onKeyUp("KeyD")
    \/ resetPosition
    \/ lock

SpecStrafe == InitWalk /\ [][NextStrafe]_vars

\* The building scene: a building 15 by 12 (radius max(15, 12) / 2 + 1) to
\* the right of the spawn point, its hidden treasure on the ground floor at
\* the room position (-5.4, -3.9), and two gems on the way to it
BuildingObstacles == <<Obstacle(1500, 390, 850, "building")>>

BuildingCollectibles ==
    <<Gem(300, 0, 0), Gem(600, 0, 0), BuildingTreasure(960, 0, 100)>>

InitBuilding == InitScene(BuildingObstacles, JumpPonds, BuildingCollectibles)

\* the player side-steps towards the building, walking or running
NextBuilding ==
    \/ Roam(BuildingX)
    \/ \E code \in {"KeyD", "ShiftLeft"} : onKeyDown(code)
    \/ \E code \in {"KeyD", "ShiftLeft"} : onKeyUp(code)
    \/ resetPosition
    \/ lock

SpecBuilding == InitBuilding /\ [][NextBuilding]_vars

\* The gazebo scene: the gazebo ahead of the spawn point and the chest that
\* createTreasure puts at the gazebo's centre
GazeboObstacles == <<Obstacle(0, -1000, 650, "gazebo")>>

GazeboCollectibles == <<Treasure(0, -1000)>>

InitGazebo == InitScene(GazeboObstacles, JumpPonds, GazeboCollectibles)

\* the player walks or runs forward and side-steps around the gazebo
NextGazebo ==
    \/ Roam(GazeboX)
    \/ \E code \in {"KeyW", "KeyD", "ShiftLeft"} : onKeyDown(code)
    \/ \E code \in {"KeyW", "KeyD", "ShiftLeft"} : onKeyUp(code)
    \/ resetPosition
    \/ lock

SpecGazebo == InitGazebo /\ [][NextGazebo]_vars

\* The wading scene: the pond of size 15 and depth 3.5 with its centre 6
\* ahead of the spawn point, a low terrace beside the path at the pond's
\* centre and a coin in the water beyond it
WadeObstacles == <<Platform(120, -600, 50, "terrace", 45)>>

WadePonds == <<Pond(0, -600, 1500, 350)>>

WadeCollectibles == <<Coin(0, -800, 0)>>

InitWade == InitScene(WadeObstacles, WadePonds, WadeCollectibles)

\* the player wades through the pond, walking or running
NextWade ==
    \/ Frame(WadeZ)
    \/ \E code \in {"KeyW", "KeyS", "ShiftLeft"} : onKeyDown(code)
    \/ \E code \in {"KeyW", "KeyS", "ShiftLeft"} : onKeyUp(code)
    \/ resetPosition
    \/ lock

SpecWade == InitWade /\ [][NextWade]_vars

\* The friction step on its own: the player glides over open ground or
\* through the air with no key down, and clock.getDelta() gives each frame
\* its time
FrameTimes == {16, 33, 50, 100, 150, 200, 250}

GlideSpeeds == {-1000, -500, 500, 1000}

InitFriction ==
    /\ collidableObjects = <<>>
    /\ currentGroundHeight = 0
    /\ query = NoQuery
    /\ gameState = [InitialGameState EXCEPT !.gameStarted = TRUE]
    /\ winScreens = 0
    /\ camera \in {Vec3(0, PLAYER_HEIGHT, 0), Vec3(0, 500, 0)}
    /\ velocity \in {Vec3(vx, 0, 0) : vx \in GlideSpeeds}
    /\ canJump = FALSE
    /\ moveForward = FALSE /\ moveBackward = FALSE
    /\ moveLeft = FALSE /\ moveRight = FALSE
    /\ isRunning = FALSE
    /\ isLocked = TRUE
    /\ collectibles = <<>>
    /\ ponds = <<>>
    /\ deltaTime \in FrameTimes
    /\ timeWritten = FALSE
    /\ spaceDown = FALSE
    /\ heldJumps = 0
    /\ PlayerIdle

\* the friction step of updateMovement in a frame of deltaTime, followed by
\* the next frame's clock.getDelta()
FrictionStep ==
    LET groundLevel == getGroundHeight(camera.x, camera.z, camera.y) + PLAYER_HEIGHT
        isGrounded == camera.y <= groundLevel + GROUND_TOLERANCE
    IN /\ Abs(velocity.x) <= MaxGlide /\ Abs(velocity.z) <= MaxGlide
       /\ velocity' = [velocity EXCEPT
                          !.x = Friction(velocity.x, isGrounded, deltaTime),
                          !.z = Friction(velocity.z, isGrounded, deltaTime)]
       /\ deltaTime' \in FrameTimes
       /\ UNCHANGED <<collVars, gameVars, camera, canJump, keyVars, isLocked,
                      collectibles, ponds, holdVars, timeWritten, playerVars>>

NextFriction == FrictionStep

SpecFriction == InitFriction /\ [][NextFriction]_vars

(***************************************************************************)
(* Player.js, InputManager.js, Game.js: the character of the second game   *)
(*                                                                         *)
(* Game.update steps the physics world and then updates the player.  A     *)
(* frame lasts 1/10 s; heights are in hundredths of a unit, the body's     *)
(* vertical velocity in whole units per second, rounded down after each    *)
(* physics step.  The character is followed                                *)
(* along one row of the height field: player.cell is the cell under the    *)
(* body and player.move the cells per frame of its horizontal velocity.    *)
(* The physics engine is a library: its step is gravity and damping on the *)
(* vertical velocity, the move, and contact with the height field without  *)
(* bounce; its ray cast meets the height field when that lies within the   *)
(* ray, and may meet another body (a rock, a trunk, a collectible's        *)
(* trigger, the character's own sphere) wherever it is cast.               *)
(***************************************************************************)
BODY_RADIUS == 80        \* Player.js:70   CANNON.Sphere(0.8)
SPAWN_HEIGHT == 200      \* Player.js:96   height + 2
JUMP_FORCE == 8          \* Player.js:190
SWIM_LAUNCH == 10        \* Player.js:241
MAX_JUMPS == 3           \* Player.js:246
SURFACE == -150          \* Player.js:240
RAY_LENGTH == 100        \* Player.js:262
WATER_LEVEL == -50       \* Player.js:269
FELL_OFF == -2000        \* Player.js:290
WORLD_GRAVITY_STEP == 1  \* Game.js:77     9.82 units/s^2 over a frame

PlayerMaxY == 300        \* the frames followed keep the body at or below this

\* a row of getTerrainHeightAt: a cell past the edge of the height field
\* (out of bounds, -100, nothing to stand on), the flattened centre and a
\* hollow below the water level
TerrainRow == <<-10000, 0, -200>>

SpawnCell == 2

getTerrainHeightAt(cell) == TerrainRow[cell]

\* buoyancy of checkWater in units per second: 20 * depth on a mass of 5,
\* acting for the one substep of 1/60 s before the forces are cleared
Buoyancy(y) == IF y < WATER_LEVEL THEN (WATER_LEVEL - y) \div 1500 ELSE 0

\* physicsWorld.step on the character's body; linearDamping 0.9 leaves
\* (1 - 0.9)^(1/10), about 4/5, of the velocity after a frame
physicsStep(p) ==
    LET cell1 == p.cell + p.move
        vy1 == ((p.vy - WORLD_GRAVITY_STEP + Buoyancy(p.y)) * 4) \div 5
        y1 == p.y + 10 * vy1
        floor == getTerrainHeightAt(cell1) + BODY_RADIUS
    IN IF y1 < floor
       THEN [p EXCEPT !.cell = cell1, !.y = floor, !.vy = Max(0, vy1)]
       ELSE [p EXCEPT !.cell = cell1, !.y = y1, !.vy = vy1]

\* Player.update, step 1: the safety clamp
SafetyClamp(p) ==
    LET minHeight == getTerrainHeightAt(p.cell) + BODY_RADIUS
    IN IF p.y < minHeight
       THEN [p EXCEPT !.y = minHeight, !.vy = Max(0, p.vy)]
       ELSE p

\* isGrounded: the ray of length 1.0 cast down from the body's centre
isGrounded(p, rayMeetsOther) ==
    \/ p.y - RAY_LENGTH <= getTerrainHeightAt(p.cell)
    \/ rayMeetsOther

\* Variant: a fourth regular jump is allowed
JumpLogicFour(p, k, grounded) ==
    LET p0 == IF grounded THEN [p EXCEPT !.jumpCount = 0] ELSE p
    IN IF k.jump
       THEN IF p0.canJump
            THEN IF p0.isSwimming /\ p0.y > SURFACE
                 THEN [p |-> [p0 EXCEPT !.vy = SWIM_LAUNCH, !.isSwimming = FALSE,
                                        !.canJump = FALSE],
                       request |-> "swim"]
                 ELSE IF p0.jumpCount < MAX_JUMPS + 1
                 THEN [p |-> [p0 EXCEPT !.vy = JUMP_FORCE, !.jumpCount = @ + 1,
                                        !.canJump = FALSE],
                       request |-> "regular"]
                 ELSE [p |-> [p0 EXCEPT !.canJump = FALSE], request |-> "refused"]
            ELSE [p |-> p0, request |-> "none"]
       ELSE [p |-> [p0 EXCEPT !.canJump = TRUE], request |-> "none"]

\* handleMovement, the jump logic; request tells what became of a jump
\* request: launched out of the water, honoured as a regular jump
\* (didJump), refused, or none made
JumpLogic(p, k, grounded) ==
    LET p0 == IF grounded THEN [p EXCEPT !.jumpCount = 0] ELSE p
    IN IF k.jump
       THEN IF p0.canJump
            THEN IF p0.isSwimming /\ p0.y > SURFACE
                 THEN [p |-> [p0 EXCEPT !.vy = SWIM_LAUNCH, !.isSwimming = FALSE,
                                        !.canJump = FALSE],
                       request |-> "swim"]
                 ELSE IF p0.jumpCount < MAX_JUMPS
                 THEN [p |-> [p0 EXCEPT !.vy = JUMP_FORCE, !.jumpCount = @ + 1,
                                        !.canJump = FALSE],
                       request |-> "regular"]
                 ELSE [p |-> [p0 EXCEPT !.canJump = FALSE], request |-> "refused"]
            ELSE [p |-> p0, request |-> "none"]
       ELSE [p |-> [p0 EXCEPT !.canJump = TRUE], request |-> "none"]

\* handleMovement: the horizontal velocity along the row (backward wins over
\* forward; without either the velocity is halved, which moves no cell),
\* then the jump logic
handleMovement(p, k, grounded) ==
    LET moveForward0 == IF k.backward THEN -1 ELSE IF k.forward THEN 1 ELSE 0
    IN JumpLogic([p EXCEPT !.move = moveForward0], k, grounded)

\* resetToGround
resetToGround(p) ==
    [p EXCEPT !.cell = SpawnCell, !.move = 0,
              !.y = getTerrainHeightAt(SpawnCell) + SPAWN_HEIGHT, !.vy = 0]

\* Variant: no respawn below the safety threshold
checkWaterNoRespawn(p) == [p EXCEPT !.isSwimming = (p.y < WATER_LEVEL)]

\* checkWater
checkWater(p) ==
    LET p1 == [p EXCEPT !.isSwimming = (p.y < WATER_LEVEL)]
    IN IF p1.y < FELL_OFF THEN resetToGround(p1) ELSE p1

\* the body when Player.update reaches handleMovement in this frame
Arrived == SafetyClamp(physicsStep(player))

\* initPlayer
InitPlayer ==
    /\ collidableObjects = <<>>
    /\ currentGroundHeight = 0
    /\ query = NoQuery
    /\ gameState = InitialGameState
    /\ winScreens = 0
    /\ MainIdle
    /\ player = resetToGround([cell |-> SpawnCell, move |-> 0, y |-> 1000, vy |-> 0,
                               jumpCount |-> 0, canJump |-> TRUE,
                               isSwimming |-> FALSE])
    /\ keys = [forward |-> FALSE, backward |-> FALSE, jump |-> FALSE]
    /\ regularJumps = 0
    /\ lastRequest = "none"

\* Game.update: one frame
update(rayMeetsOther) ==
    /\ player.cell + player.move \in 1..Len(TerrainRow)
    /\ LET grounded == isGrounded(Arrived, rayMeetsOther)
           h == handleMovement(Arrived, keys, grounded)
           since == IF grounded THEN 0 ELSE regularJumps
       IN /\ h.p.y <= PlayerMaxY
          /\ player' = checkWater(h.p)
          /\ regularJumps' = IF h.request = "regular" THEN since + 1 ELSE since
          /\ lastRequest' = h.request
    /\ UNCHANGED <<collVars, gameVars, mainVars, keys>>

\* InputManager.onKeyDown
InputOnKeyDown(code) ==
    /\ keys' = [forward |-> IF code \in {"KeyW", "ArrowUp"} THEN TRUE ELSE keys.forward,
                backward |-> IF code \in {"KeyS", "ArrowDown"} THEN TRUE ELSE keys.backward,
                jump |-> IF code = "Space" THEN TRUE ELSE keys.jump]
    /\ UNCHANGED <<collVars, gameVars, mainVars, player, regularJumps, lastRequest>>

\* InputManager.onKeyUp
InputOnKeyUp(code) ==
    /\ keys' = [forward |-> IF code \in {"KeyW", "ArrowUp"} THEN FALSE ELSE keys.forward,
                backward |-> IF code \in {"KeyS", "ArrowDown"} THEN FALSE ELSE keys.backward,
                jump |-> IF code = "Space" THEN FALSE ELSE keys.jump]
    /\ UNCHANGED <<collVars, gameVars, mainVars, player, regularJumps, lastRequest>>

InputCodes == {"KeyW", "KeyS", "Space"}

NextPlayer ==
    \/ \E rayMeetsOther \in BOOLEAN : update(rayMeetsOther)
    \/ \E code \in InputCodes : InputOnKeyDown(code)
    \/ \E code \in InputCodes : InputOnKeyUp(code)

SpecPlayer == InitPlayer /\ [][NextPlayer]_vars

(***************************************************************************)
(* Properties of the collision query and the ground-height resolver.       *)
(* Each is stated on the query just answered; every pair of a registry     *)
(* content and a query is a reachable state.                               *)
(***************************************************************************)
Registered == { collidableObjects[i] : i \in 1..Len(collidableObjects) }

WithinReach(obj, x, z) ==
    Dist2(x, z, obj.x, obj.z) < (PLAYER_RADIUS + obj.radius) * (PLAYER_RADIUS + obj.radius)

OnlyPlatformsAllBelow(playerY) ==
    /\ collidableObjects # <<>>
    /\ \A obj \in Registered : obj.hasHeight /\ playerY > obj.height + JUMP_OVER_MARGIN

\* C5 as stated: with only platforms registered and playerY above h + 1.5
\* for each of them, checkCollision is false for every (x, z).
C5_AsStated ==
    (query.op = "checkCollision" /\ OnlyPlatformsAllBelow(query.y))
        => ~query.blocked

\* C5 amended: with only platforms registered and playerY above h + 1.5 for
\* each of them, checkCollision is false for every (x, z) inside the world
\* boundary (|x| <= 240 and |z| <= 240).
C5_AboveEveryPlatformInsideWorld ==
    (/\ query.op = "checkCollision"
     /\ OnlyPlatformsAllBelow(query.y)
     /\ Abs(query.x) <= BOUNDARY
     /\ Abs(query.z) <= BOUNDARY) => ~query.blocked

\* two platforms, one of them elevated, the target on both footprints
C5_Witness ==
    /\ query.op = "checkCollision"
    /\ OnlyPlatformsAllBelow(query.y)
    /\ Len(collidableObjects) >= 2
    /\ \A obj \in Registered : WithinReach(obj, query.x, query.z)
    /\ \E obj \in Registered : obj.height > 0
    /\ ~query.blocked

\* C6: an obstacle registered with a platform height of zero blocks every
\* target within the radius sum at every playerY, as one with no height does.
C6_ZeroHeightAlwaysBlocks ==
    (/\ query.op = "checkCollision"
     /\ \E obj \in Registered :
            obj.hasHeight /\ obj.height = 0 /\ WithinReach(obj, query.x, query.z))
        => query.blocked

\* The heights of the obstacles that qualify as a landing surface
Eligible(x, z, currentY) ==
    { obj.height : obj \in
        { o \in Registered :
            /\ o.hasHeight
            /\ Dist2(x, z, o.x, o.z) < o.radius * o.radius
            /\ o.height - LANDING_BELOW <= currentY
            /\ currentY <= o.height + LANDING_ABOVE } }

\* C7: getGroundHeight returns the maximum height among the qualifying
\* obstacles (both window bounds inclusive), 0 when none qualifies, and
\* never a negative value.
C7_GroundHeightIsMaxEligible ==
    query.op = "updateGroundHeight" =>
        LET E == Eligible(query.x, query.z, query.y)
        IN /\ query.ground >= 0
           /\ E = {} => query.ground = 0
           /\ E # {} => query.ground \in E /\ \A h \in E : h <= query.ground

\* two overlapping terraces, the higher one registered first, queried at the
\* inclusive lower bound of the higher one's window
C7_Witness ==
    /\ Len(collidableObjects) >= 2
    /\ collidableObjects[1].height = 500
    /\ collidableObjects[2].height = 300
    /\ query.op = "updateGroundHeight"
    /\ query.y = 450
    /\ Cardinality(Eligible(query.x, query.z, query.y)) = 2
    /\ query.ground = 500
    /\ currentGroundHeight = 500

Reorderings(objs) ==
    { [i \in 1..Len(objs) |-> objs[f[i]]] : f \in Permutations(1..Len(objs)) }

\* C8: for a fixed set of obstacles and a fixed query, checkCollision and
\* getGroundHeight give the same result for every registration order.
C8_OrderIndependent ==
    \A objs \in Reorderings(collidableObjects) :
        /\ query.op = "checkCollision" =>
               CollisionLoop(objs, 1, query.x, query.z, query.y) = query.blocked
        /\ query.op = "updateGroundHeight" =>
               GroundLoop(objs, 1, 0, query.x, query.z, query.y) = query.ground

\* three different obstacles, a tree among them, and a query whose answer
\* the tree decides after a platform was skipped
C8_Witness ==
    /\ Len(collidableObjects) = 3
    /\ Cardinality(Registered) = 3
    /\ collidableObjects[1].hasHeight
    /\ \E obj \in Registered : ~obj.hasHeight
    /\ query.op = "checkCollision"
    /\ query.y > collidableObjects[1].height + JUMP_OVER_MARGIN
    /\ WithinReach(collidableObjects[1], query.x, query.z)
    /\ query.blocked

(***************************************************************************)
(* Properties of the objective tracker                                     *)
(***************************************************************************)
\* C2: gameWon is true only in states where the three completed flags are
\* all true; one or two completed objectives never set it (all gems and
\* three ponds without the treasure leave gameWon false).
C2_WonOnlyWhenAllCompleted ==
    gameState.gameWon =>
        /\ gameState.objectives[1]
        /\ gameState.objectives[2]
        /\ gameState.objectives[3]

\* the win was reported after gems, ponds and treasure were all in
C2_Witness ==
    /\ gameState.gameWon
    /\ winScreens = 1
    /\ gameState.treasureFound
    /\ Cardinality(gameState.pondsVisited) >= 3
    /\ gameState.totalGems > 0
    /\ gameState.gemsCollected >= gameState.totalGems

(***************************************************************************)
(* Properties of the game loop of main.js                                  *)
(***************************************************************************)
\* C1: at the end of any frame in which the three objectives are all
\* completed, gameWon is true and the win screen has been shown, whichever
\* objective was the last to complete.
C1_WinIsImmediate ==
    ( /\ gameState.objectives[1]
      /\ gameState.objectives[2]
      /\ gameState.objectives[3] )
    => (gameState.gameWon /\ winScreens >= 1)

\* what collecting c adds to the score
Worth(c) == IF c.isTreasure THEN 500 ELSE c.value

\* the worth of the collectibles whose flag goes from false to true
RECURSIVE Gained(_, _, _)
Gained(before, after, i) ==
    IF i > Len(before) THEN 0
    ELSE (IF ~before[i].collected /\ after[i].collected
          THEN Worth(before[i]) ELSE 0)
         + Gained(before, after, i + 1)

\* C3: in every step a collected flag that is true stays true, and the
\* score grows by exactly the worth of the collectibles whose flag goes from
\* false to true in that step; a frame spent within reach of a collected
\* item adds nothing.
C3_CollectedOnceScoredOnce ==
    [][ /\ \A i \in 1..Len(collectibles) :
             collectibles[i].collected => collectibles'[i].collected
        /\ gameState'.score =
               gameState.score + Gained(collectibles, collectibles', 1) ]_vars

\* the first gem was collected on entering its reach, and the player has
\* walked on to stand on it with nothing else scored
C3_Witness ==
    /\ collectibles[1].collected
    /\ camera.x = collectibles[1].x /\ camera.z = collectibles[1].z
    /\ InReach(collectibles[1], camera, 0)
    /\ \A i \in 2..Len(collectibles) : ~collectibles[i].collected
    /\ gameState.score = collectibles[1].value

\* a step in which the vertical velocity is set to JUMP_VELOCITY: only the
\* Space keydown does that
JumpStarted == velocity.y # JUMP_VELOCITY /\ velocity'.y = JUMP_VELOCITY

\* C9: the Space keydown sets the vertical velocity to JUMP_VELOCITY only
\* when the player is grounded (y <= currentGroundHeight + PLAYER_HEIGHT +
\* 0.1); an airborne player cannot start a jump.
C9_JumpOnlyWhenGrounded ==
    [][ JumpStarted =>
          camera.y <= currentGroundHeight + PLAYER_HEIGHT + GROUND_TOLERANCE ]_vars

(***************************************************************************)
(* Properties of the character's jump logic                                *)
(***************************************************************************)
\* a frame that handles a jump request after three regular jumps, without
\* isGrounded() having been true since and without a launch out of the water;
\* the frame is not one that checkWater ends with a respawn, which clears
\* the velocity after handleMovement has returned
FourthRequest ==
    /\ keys.jump /\ player.canJump /\ ~player'.canJump
    /\ regularJumps = MAX_JUMPS
    /\ regularJumps' >= MAX_JUMPS
    /\ ~(player.isSwimming /\ Arrived.y > SURFACE)
    /\ Arrived.y >= FELL_OFF

\* C10: jumpCount is always in 0..3; between two frames in which
\* isGrounded() is true at most 3 regular jumps are honoured; a fourth jump
\* request before a ground touch leaves the vertical velocity as the physics
\* step left it.
C10_TripleJump ==
    /\ [](player.jumpCount \in 0..MAX_JUMPS /\ regularJumps <= MAX_JUMPS)
    /\ [][FourthRequest => player'.vy = Arrived.vy]_vars

\* a fourth request has just been refused in the air
C10_Witness ==
    /\ lastRequest = "refused"
    /\ regularJumps = MAX_JUMPS
    /\ player.jumpCount = MAX_JUMPS
    /\ ~player.isSwimming
    /\ player.y - RAY_LENGTH > getTerrainHeightAt(player.cell)
    /\ player.vy # JUMP_FORCE

\* C11: while the Space key stays down, at most one jump is started, over
\* any number of frames and of repeated keydown events, landings included.
C11_OneJumpPerPress == spaceDown => heldJumps <= 1

\* C12: when a frame honours a jump while swimming near the surface, the
\* player is not swimming when that frame's update completes, and the
\* vertical velocity is the launch value.
C12_SwimJumpLeavesWater ==
    lastRequest = "swim" => (~player.isSwimming /\ player.vy = SWIM_LAUNCH)

\* C13: no step takes a collectible's collected flag, a pond's membership
\* in pondsVisited, an objective's completed flag, treasureFound or gameWon
\* from true back to false.
C13_Irreversible ==
    [][ /\ \A i \in 1..Len(collectibles) :
             collectibles[i].collected => collectibles'[i].collected
        /\ gameState.pondsVisited \subseteq gameState'.pondsVisited
        /\ \A k \in 1..3 : gameState.objectives[k] => gameState'.objectives[k]
        /\ gameState.treasureFound => gameState'.treasureFound
        /\ gameState.gameWon => gameState'.gameWon ]_vars

\* everything is collected, visited and won, and the player has walked back
\* to the spawn point
C13_Witness ==
    /\ \A i \in 1..Len(collectibles) : collectibles[i].collected
    /\ Len(collectibles) > 0
    /\ Cardinality(gameState.pondsVisited) = 3
    /\ gameState.treasureFound
    /\ gameState.gameWon
    /\ camera = Vec3(0, PLAYER_HEIGHT, 0)

\* C14: the win is reported at most once, and a checkWinCondition call made
\* when gameWon is already true reports nothing and leaves the game state
\* as it was.
C14_WinReportedOnce ==
    /\ [](winScreens <= 1)
    /\ [][ (gameState.gameWon /\ checkWinConditionState)
             => UNCHANGED <<gameState, winScreens>> ]_vars

\* the win has been reported once and the operations went on after it: the
\* gem total was raised above the gems collected
C14_Witness ==
    /\ gameState.gameWon
    /\ winScreens = 1
    /\ gameState.objectives[1]
    /\ gameState.gemsCollected < gameState.totalGems

\* main.js: checkWinCondition on a game already won gives it back unchanged
WonStaysAsIs ==
    gameState.gameWon =>
        LET g == [gs |-> gameState, n |-> winScreens]
        IN checkWinCondition(g) = g /\ winScreens = 1

\* C15: an obstacle whose radius is not positive is rejected at
\* registration, so every obstacle in the registry has radius > 0.
C15_RadiusPositive == \A obj \in Registered : obj.radius > 0

\* C16: starting at spawn, after any sequence of frames and reset-position
\* clicks the player's |x| and |z| are both at most 240.
C16_StaysInside == Abs(camera.x) <= BOUNDARY /\ Abs(camera.z) <= BOUNDARY

\* C17: a frame in which the body is below the safety threshold (-20) ends
\* with the player at the spawn point, terrainHeight(0,0) + 2 high, with
\* velocity zero.
C17_RespawnBelowFloor ==
    [][ ((\E rayMeetsOther \in BOOLEAN : update(rayMeetsOther))
           /\ Arrived.y < FELL_OFF)
        => /\ player'.cell = SpawnCell
           /\ player'.y = getTerrainHeightAt(SpawnCell) + SPAWN_HEIGHT
           /\ player'.vy = 0
           /\ player'.move = 0 ]_vars

\* the player has just been put back at the spawn point: the swimming flag
\* is still the one of the fall
C17_Witness ==
    /\ player.cell = SpawnCell
    /\ player.y = getTerrainHeightAt(SpawnCell) + SPAWN_HEIGHT
    /\ player.vy = 0 /\ player.move = 0
    /\ player.isSwimming

\* the points of the gems, the coins and the chest of the scene; in the
\* park: 10 gems of 100, 5 coins of 10 and the chest of 500, that is 1,550
RECURSIVE ListedScore(_, _)
ListedScore(items, i) ==
    IF i > Len(items) THEN 0
    ELSE (IF items[i].isTreasure THEN 500
          ELSE IF items[i].type = "gem" THEN 100
          ELSE IF items[i].type = "coin" THEN 10
          ELSE 0)
         + ListedScore(items, i + 1)

\* C18: the score never exceeds the points of the gems, the coins and the
\* chest of the scene (1,550 in the park).
C18_ScoreCap == gameState.score <= ListedScore(collectibles, 1)

\* offsets from the chest and camera heights that cover the collection
\* range (closer than 2.0 horizontally and 2.5 vertically)
ReachOffsets == {-190 + 10 * k : k \in 0..38}

ReachHeights == {PLAYER_HEIGHT + 50 * k : k \in 0..4}

\* the chest of the scene has been collected at no point so far
ChestUntouched == ~gameState.treasureFound

\* C19: the chest can be collected from positions the player is allowed to
\* move to: some position within the collection tolerances of the chest is
\* one that checkCollision accepts.
C19_ChestWithinAcceptedReach ==
    \E i \in 1..Len(collectibles) :
       /\ collectibles[i].isTreasure
       /\ \E dx \in ReachOffsets, dz \in ReachOffsets, y \in ReachHeights,
             bob \in BobOffsets :
             LET c == collectibles[i]
                 pos == Vec3(c.x + dx, y, c.z + dz)
             IN /\ InReach(c, pos, bob)
                /\ ~checkCollision(pos.x, pos.z, pos.y)

\* C20: at the end of every frame, and after every other step, the player
\* stands at a position (x, z, y) at which checkCollision is false.
C20_NoPenetration == ~checkCollision(camera.x, camera.z, camera.y)

\* the ponds, by index from 0, whose centre is closer than 20 to pos
PondsInRange(pos) ==
    { i - 1 : i \in { j \in 1..Len(ponds) :
        Dist2(pos.x, pos.z, ponds[j].x, ponds[j].z) < POND_DISCOVERY * POND_DISCOVERY } }

AnimateStep == \E bob \in [Nearby -> BobOffsets] : animate(bob)

\* C21: a pond is recorded in the first frame of the running game that ends
\* closer than 20 to its centre and in no other; frames inside the radius of
\* recorded ponds change nothing; objective 3 is completed exactly when
\* three distinct ponds are recorded.
C21_PondDiscoveredOnce ==
    /\ [](gameState.objectives[3] <=> Cardinality(gameState.pondsVisited) >= 3)
    /\ [][ /\ gameState.pondsVisited \subseteq gameState'.pondsVisited
           /\ (gameState'.pondsVisited \ gameState.pondsVisited)
                 \subseteq PondsInRange(camera')
           /\ (AnimateStep /\ ~gameState.gameWon)
                 => PondsInRange(camera') \subseteq gameState'.pondsVisited
           /\ PondsInRange(camera') \subseteq gameState.pondsVisited
                 => gameState'.pondsVisited = gameState.pondsVisited ]_vars

\* the three ponds are recorded and the player stands within the radius of
\* the third
C21_Witness ==
    /\ Cardinality(gameState.pondsVisited) = 3
    /\ gameState.objectives[3]
    /\ 2 \in PondsInRange(camera)

MovementStep == AnimateStep /\ isLocked

\* C23: every updateMovement call ends with y >= currentGroundHeight +
\* PLAYER_HEIGHT, the ground height being the one resolved at its start,
\* also when the water lowered y; when the clamp fires y is exactly that
\* level, velocity.y is 0 and canJump is true.
C23_GroundClamp ==
    [][ MovementStep
        => /\ camera'.y >= currentGroundHeight' + PLAYER_HEIGHT
           /\ currentGroundHeight' = getGroundHeight(camera.x, camera.z, camera.y)
           /\ updateMovement.landed
                => /\ camera'.y = currentGroundHeight' + PLAYER_HEIGHT
                   /\ velocity'.y = 0
                   /\ canJump' ]_vars

\* the player stands in deep water after a frame whose sinking the clamp
\* has undone
C23_Witness ==
    /\ isLocked
    /\ getWaterDepth(camera.x, camera.z).inWater
    /\ getWaterDepth(camera.x, camera.z).depth >= DEEP_DEPTH
    /\ camera.y = currentGroundHeight + PLAYER_HEIGHT
    /\ velocity.y = 0 /\ canJump

\* C24: a frame whose proposed horizontal position checkCollision reports
\* as blocked leaves x and z unchanged and sets velocity.x and velocity.z to
\* 0; the vertical velocity and position are integrated all the same.
C24_BlockedFrame ==
    [][ (MovementStep /\ updateMovement.blocked)
        => /\ camera'.x = camera.x /\ camera'.z = camera.z
           /\ velocity'.x = 0 /\ velocity'.z = 0
           /\ ~updateMovement.landed
                => /\ velocity'.y = velocity.y - GRAVITY_STEP
                   /\ camera'.y = updateMovement.y1 + velocity'.y ]_vars

\* the player, pushing forward in mid-air, has been stopped by a blocked
\* frame and the next one is blocked too
C24_Witness ==
    /\ isLocked /\ moveForward
    /\ updateMovement.blocked /\ ~updateMovement.landed
    /\ velocity.z = 0 /\ velocity.y # 0

\* C25: the height passed to checkCollision in a frame is the player's y
\* at the start of that frame: neither the vertical movement nor any other
\* step of the frame has changed it.
C25_QueryAtStartHeight ==
    [][ MovementStep => updateMovement.queryY = camera.y ]_vars

\* C25 as amended: the height passed to checkCollision is the player's y at
\* the start of the frame, lowered by at most sinkRate * dt by that frame's
\* water sinking when the player stands in water; the frame's gravity and
\* vertical movement do not enter it.
C25_QueryBeforeFall ==
    [][ MovementStep
        => LET m == updateMovement
           IN /\ ~m.wet => m.queryY = camera.y
              /\ m.wet => /\ m.queryY <= camera.y
                          /\ m.queryY >= camera.y - m.tier.sink ]_vars

\* wading in the pond, the player is blocked by a rock that would let the
\* player through at the height the frame started with
C25_Witness ==
    /\ isLocked
    /\ updateMovement.wet
    /\ updateMovement.blocked
    /\ ~checkCollision(updateMovement.potentialX, updateMovement.potentialZ,
                       camera.y)

\* the player stands in water at least 3.0 deep
InDeepWater ==
    LET m == updateMovement
    IN /\ m.wet
       /\ getWaterDepth(camera.x, camera.z).depth >= DEEP_DEPTH

\* C26: grounded in deep water, running gives a larger movement factor and
\* a larger sink rate than walking.
C26_RunningSinksFaster ==
    InDeepWater
    => LET depth == getWaterDepth(camera.x, camera.z).depth
       IN /\ WaterTier(depth, TRUE).waterResistance
               > WaterTier(depth, FALSE).waterResistance
          /\ WaterTier(depth, TRUE).sink > WaterTier(depth, FALSE).sink

\* C26 as amended: grounded in deep water, running gives a larger movement
\* factor (0.4 against 0.2) and a smaller sink rate (0.8 against 1.2) than
\* walking, and the frame uses the tier of isRunning.
C26_RunningSinksSlower ==
    InDeepWater
    => LET depth == getWaterDepth(camera.x, camera.z).depth
       IN /\ WaterTier(depth, TRUE).waterResistance
               > WaterTier(depth, FALSE).waterResistance
          /\ WaterTier(depth, TRUE).sink < WaterTier(depth, FALSE).sink
          /\ updateMovement.tier = WaterTier(depth, isRunning)

\* the player has just run a frame forward in deep water
C26_Witness ==
    /\ isLocked /\ isRunning /\ moveForward
    /\ InDeepWater
    /\ velocity.z = -40

\* the speed one friction step leaves of v
SpeedAfter(v, grounded, dt) ==
    LET w == Friction(v, grounded, dt) IN IF w < 0 THEN 0 - w ELSE w

\* the velocities whose friction steps are exact at the resolution of the
\* model
ExactStep(v, dt) == (v * 2 * dt) % 1000 = 0

\* C27: for the same non-zero horizontal velocity and the same frame time,
\* one friction step leaves a strictly smaller speed on the ground than in
\* the air.
C27_GroundDecaysFaster ==
    (velocity.x # 0 /\ ExactStep(velocity.x, deltaTime))
    => SpeedAfter(velocity.x, TRUE, deltaTime)
         < SpeedAfter(velocity.x, FALSE, deltaTime)

\* the player rests on the top of platform obj
OnTop(obj, pos) ==
    /\ obj.hasHeight
    /\ pos.y = obj.height + PLAYER_HEIGHT
    /\ Dist2(pos.x, pos.z, obj.x, obj.z) < obj.radius * obj.radius

\* obj on its own blocks the target (x, z) at height y
BlocksAlone(obj, x, z, y) ==
    /\ CollisionLoop(<<obj>>, 1, x, z, y)
    /\ Abs(x) <= BOUNDARY /\ Abs(z) <= BOUNDARY

\* C28: while the player rests on the top of a platform of height h, that
\* platform blocks neither the player's position nor the move of the frame,
\* getGroundHeight at the player's position is at least h, and a frame that
\* ends inside the footprint ends with y >= h + PLAYER_HEIGHT.
C28_StandingOnPlatform ==
    /\ [](\A obj \in Registered :
            OnTop(obj, camera)
            => /\ ~BlocksAlone(obj, camera.x, camera.z, camera.y)
               /\ getGroundHeight(camera.x, camera.z, camera.y) >= obj.height)
    /\ [][ \A obj \in Registered :
             (MovementStep /\ OnTop(obj, camera))
             => /\ ~BlocksAlone(obj, updateMovement.potentialX,
                                updateMovement.potentialZ, updateMovement.queryY)
                /\ Dist2(camera'.x, camera'.z, obj.x, obj.z) < obj.radius * obj.radius
                     => camera'.y >= obj.height + PLAYER_HEIGHT ]_vars

\* the player walks on the top of the terrace
C28_Witness ==
    /\ isLocked /\ moveForward /\ canJump
    /\ velocity.y = 0 /\ velocity.z # 0
    /\ \E obj \in Registered : obj.height > 0 /\ OnTop(obj, camera)

\* C29: a frame that starts with gameWon true, or with gameStarted false,
\* leaves the game state (score, gemsCollected, pondsVisited) and every
\* collected flag unchanged and does not assign timeElapsed, also within
\* range of an uncollected item.
C29_FrozenAfterWin ==
    [][ (AnimateStep /\ (gameState.gameWon \/ ~gameState.gameStarted))
        => /\ gameState' = gameState
           /\ collectibles' = collectibles
           /\ ~timeWritten' ]_vars

\* after the win, a frame has ended within reach of an item that is still
\* uncollected
C29_Witness ==
    /\ gameState.gameWon /\ ~timeWritten
    /\ \E i \in 1..Len(collectibles) :
          /\ ~collectibles[i].collected
          /\ InReach(collectibles[i], camera, 0)

\* the gem-type collectibles, and those of them that are collected
GemItems == { i \in 1..Len(collectibles) : collectibles[i].type = "gem" }

CollectedGems == { i \in GemItems : collectibles[i].collected }

\* C30: totalGems is the number of collectibles of type 'gem',
\* gemsCollected is the number of collected ones among them and never
\* exceeds totalGems, and objective 1 is completed if and only if every one
\* of them is collected.
C30_GemAccounting ==
    /\ gameState.totalGems = Cardinality(GemItems)
    /\ gameState.gemsCollected = Cardinality(CollectedGems)
    /\ gameState.gemsCollected <= gameState.totalGems
    /\ gameState.objectives[1] <=> CollectedGems = GemItems

\* every gem and the building's prize are collected
C30_Witness ==
    /\ Cardinality(GemItems) = 2
    /\ CollectedGems = GemItems
    /\ gameState.objectives[1]
    /\ \E i \in 1..Len(collectibles) :
          collectibles[i].type = "building_treasure" /\ collectibles[i].collected

====
